---- MODULE Spec2Model ----
(***************************************************************************)
(* Model of the batch collators of accmt (src/src/accmt/collate_fns.py):   *)
(*   DataCollatorForSeq2Seq, DataCollatorForLongestSequence and            *)
(*   DataCollatorForLanguageModeling.                                      *)
(*                                                                         *)
(* A state holds the example objects of one batch (they live in the data   *)
(* set and are handed to the collator by reference), the configuration of  *)
(* the collator, and the outcome of the last call.  A call is one action.  *)
(* Examples are plain mappings; the (fields, target) pair variant is not   *)
(* modelled.  All fields of one example use one representation (python     *)
(* lists, or arrays/tensors).                                              *)
(***************************************************************************)
EXTENDS Integers, Sequences, FiniteSets, TLC

\* ---------------------------------------------------------------- bounds
MaxLen == 2
MaxBatch == 2

\* ------------------------------------------------- tokenizer / constants
PadTokenId == 0
MaskTokenId == 1
VocabSize == 4
LabelPadTokenId == -100
HardCodedIgnore == -100

None == <<>>
Some(v) == <<v>>

Fill(v, n) == [i \in 1..n |-> v]

Ones(n) == Fill(1, n)

\* ------------------------------------------------------------ the inputs
\* Examples of the padding collators: input_ids of length li, an
\* attention_mask of length la (the length of input_ids, or one less: a
\* malformed example), labels of length ll, all python lists or all arrays.
PadIds(n) == [i \in 1..n |-> 10 + i]

PadLabels(n) == [i \in 1..n |-> 20 + i]

PadExamples ==
  { [input_ids |-> PadIds(li), attention_mask |-> Ones(li - short),
     labels |-> Some(PadLabels(ll)), special_tokens_mask |-> None,
     is_list |-> isl] :
      li \in 1..MaxLen, short \in {0, 1}, ll \in 1..MaxLen, isl \in BOOLEAN }

\* Examples of the language-modelling collator: tensors of token ids.
OrdIds(n) == [i \in 1..n |-> 2 + ((i - 1) % 2)]

LMIds(n) == { OrdIds(n), [OrdIds(n) EXCEPT ![n] = PadTokenId] }

LMMasks(n) == { None, Some([i \in 1..n |-> i = 1]) }

LMExamples ==
  UNION { { [input_ids |-> ids, attention_mask |-> Ones(la),
             labels |-> None, special_tokens_mask |-> stm,
             is_list |-> FALSE] :
              ids \in LMIds(n), la \in {n, n - 1}, stm \in LMMasks(n) } :
          n \in 1..MaxLen }

RECURSIVE Batches(_, _)
Batches(E, n) ==
  IF n = 0 THEN { <<>> }
  ELSE LET shorter == Batches(E, n - 1)
       IN  shorter \cup { Append(b, e) : b \in { s \in shorter : Len(s) = n - 1 }, e \in E }

PadConfigs ==
  { [padding_side |-> s, mlm |-> TRUE, mlm_probability |-> 15, ignore_index |-> -100,
     masked_to_mask |-> 80, apply_random_words |-> TRUE,
     keep_original_input |-> FALSE] : s \in {"left", "right"} }

\* Probabilities are percentages: 0 and 100 are the deterministic ends, any
\* other value stands for a probability strictly between them.  A
\* masked_to_mask of 0 is the disabled setting (line 169).
LMConfigs ==
  { [padding_side |-> "right", mlm |-> TRUE, mlm_probability |-> p, ignore_index |-> ii,
     masked_to_mask |-> m, apply_random_words |-> r, keep_original_input |-> k] :
      p \in {15, 100}, ii \in {-100, -1}, m \in {0, 80, 100},
      r \in BOOLEAN, k \in BOOLEAN }
  \cup
  { [padding_side |-> "right", mlm |-> FALSE, mlm_probability |-> 15, ignore_index |-> ii,
     masked_to_mask |-> 80, apply_random_words |-> TRUE, keep_original_input |-> k] :
      ii \in {-100, -1}, k \in BOOLEAN }

\* ------------------------------------------------------------- the state
VARIABLES family, cfg, heap, pre, out, pc

vars == <<family, cfg, heap, pre, out, pc>>

NoOutput(c, st) ==
  [collator |-> c, status |-> st, input_ids |-> <<>>, attention_mask |-> <<>>,
   labels |-> <<>>, unmasked_input_ids |-> None, rows |-> <<>>]

\* ------------------------------------------------------ shared primitives
\* max(len(l) for l in rows): undefined (an error) on an empty batch.
MaxLength(rows) ==
  CHOOSE m \in { Len(rows[i]) : i \in 1..Len(rows) } :
    \A i \in 1..Len(rows) : Len(rows[i]) <= m

\* Mutant of CanStack: an empty list stacks to an empty array.
CanStack_EmptyOk(rows) ==
  \A i \in 1..Len(rows) : Len(rows[i]) = Len(rows[1])

\* np.stack / torch.stack: fails on an empty list and on rows of unequal length.
CanStack(rows) ==
  /\ Len(rows) > 0
  /\ \A i \in 1..Len(rows) : Len(rows[i]) = Len(rows[1])

\* [v] * n is empty when n <= 0.
Remainder(v, n) == IF n > 0 THEN Fill(v, n) ELSE <<>>

\* ------------------------------------------------ DataCollatorForSeq2Seq
\* Mutant of Seq2SeqFeature: labels are padded to the width of the inputs.
Seq2SeqFeature_SharedWidth(f, max_input_length, max_label_length, side) ==
  LET inputs_remainder == Remainder(PadTokenId, max_input_length - Len(f.input_ids))
      attention_masks_remainder == Remainder(0, max_input_length - Len(f.input_ids))
      labels_remainder == Remainder(LabelPadTokenId, max_input_length - Len(f.labels[1]))
  IN  IF f.is_list \/ side = "right"
      THEN [input_ids |-> f.input_ids \o inputs_remainder,
            attention_mask |-> f.attention_mask \o attention_masks_remainder,
            labels |-> f.labels[1] \o labels_remainder]
      ELSE [input_ids |-> inputs_remainder \o f.input_ids,
            attention_mask |-> attention_masks_remainder \o f.attention_mask,
            labels |-> labels_remainder \o f.labels[1]]

\* Mutant of Seq2SeqFeature: the attention mask is padded by its own length.
Seq2SeqFeature_MaskToWidth(f, max_input_length, max_label_length, side) ==
  LET inputs_remainder == Remainder(PadTokenId, max_input_length - Len(f.input_ids))
      attention_masks_remainder == Remainder(0, max_input_length - Len(f.attention_mask))
      labels_remainder == Remainder(LabelPadTokenId, max_label_length - Len(f.labels[1]))
  IN  IF f.is_list \/ side = "right"
      THEN [input_ids |-> f.input_ids \o inputs_remainder,
            attention_mask |-> f.attention_mask \o attention_masks_remainder,
            labels |-> f.labels[1] \o labels_remainder]
      ELSE [input_ids |-> inputs_remainder \o f.input_ids,
            attention_mask |-> attention_masks_remainder \o f.attention_mask,
            labels |-> labels_remainder \o f.labels[1]]

\* The second loop's body (lines 37-58): the padded feature.
Seq2SeqFeature(f, max_input_length, max_label_length, side) ==
  LET inputs_remainder == Remainder(PadTokenId, max_input_length - Len(f.input_ids))
      attention_masks_remainder == Remainder(0, max_input_length - Len(f.input_ids))
      labels_remainder == Remainder(LabelPadTokenId, max_label_length - Len(f.labels[1]))
  IN  IF f.is_list
      THEN [input_ids |-> f.input_ids \o inputs_remainder,
            attention_mask |-> f.attention_mask \o attention_masks_remainder,
            labels |-> f.labels[1] \o labels_remainder]
      ELSE IF side = "right"
      THEN [input_ids |-> f.input_ids \o inputs_remainder,
            attention_mask |-> f.attention_mask \o attention_masks_remainder,
            labels |-> f.labels[1] \o labels_remainder]
      ELSE [input_ids |-> inputs_remainder \o f.input_ids,
            attention_mask |-> attention_masks_remainder \o f.attention_mask,
            labels |-> labels_remainder \o f.labels[1]]

DataCollatorForSeq2Seq(batch, c) ==
  IF Len(batch) = 0
  THEN NoOutput("seq2seq", "error")      \* max() of an empty sequence
  ELSE
    LET max_label_length == MaxLength([i \in 1..Len(batch) |-> batch[i].labels[1]])
        max_input_length == MaxLength([i \in 1..Len(batch) |-> batch[i].input_ids])
        padded == [i \in 1..Len(batch) |->
                     Seq2SeqFeature(batch[i], max_input_length, max_label_length,
                                    c.padding_side)]
        inputs == [i \in 1..Len(batch) |-> padded[i].input_ids]
        attention_masks == [i \in 1..Len(batch) |-> padded[i].attention_mask]
        labels == [i \in 1..Len(batch) |-> padded[i].labels]
    IN  IF CanStack(inputs) /\ CanStack(attention_masks) /\ CanStack(labels)
        THEN [collator |-> "seq2seq", status |-> "ok", input_ids |-> inputs,
              attention_mask |-> attention_masks, labels |-> labels,
              unmasked_input_ids |-> None, rows |-> <<>>]
        ELSE NoOutput("seq2seq", "error")

\* ---------------------------------------- DataCollatorForLongestSequence
\* Mutant of LongestFeature: the attention mask is extended with ones.
LongestFeature_MaskOfOnes(f, max_input_length, side) ==
  LET inputs_remainder == Remainder(PadTokenId, max_input_length - Len(f.input_ids))
      attention_masks_remainder == Remainder(1, max_input_length - Len(f.input_ids))
  IN  IF side = "right"
      THEN [input_ids |-> f.input_ids \o inputs_remainder,
            attention_mask |-> f.attention_mask \o attention_masks_remainder]
      ELSE [input_ids |-> inputs_remainder \o f.input_ids,
            attention_mask |-> attention_masks_remainder \o f.attention_mask]

\* The second loop's body (lines 92-104).
LongestFeature(f, max_input_length, side) ==
  LET inputs_remainder == Remainder(PadTokenId, max_input_length - Len(f.input_ids))
      attention_masks_remainder == Remainder(0, max_input_length - Len(f.input_ids))
  IN  IF side = "right"
      THEN [input_ids |-> f.input_ids \o inputs_remainder,
            attention_mask |-> f.attention_mask \o attention_masks_remainder]
      ELSE [input_ids |-> inputs_remainder \o f.input_ids,
            attention_mask |-> attention_masks_remainder \o f.attention_mask]

DataCollatorForLongestSequence(batch, c) ==
  IF Len(batch) = 0
  THEN NoOutput("longest", "error")      \* max() of an empty sequence
  ELSE
    LET max_input_length == MaxLength([i \in 1..Len(batch) |-> batch[i].input_ids])
        padded == [i \in 1..Len(batch) |->
                     LongestFeature(batch[i], max_input_length, c.padding_side)]
        inputs == [i \in 1..Len(batch) |-> padded[i].input_ids]
        attention_masks == [i \in 1..Len(batch) |-> padded[i].attention_mask]
    IN  IF CanStack(inputs) /\ CanStack(attention_masks)
        THEN [collator |-> "longest", status |-> "ok", input_ids |-> inputs,
              attention_mask |-> attention_masks, labels |-> <<>>,
              unmasked_input_ids |-> None, rows |-> <<>>]
        ELSE NoOutput("longest", "error")

\* --------------------------------------- DataCollatorForLanguageModeling
\* tokenizer.get_special_tokens_mask(ids, already_has_special_tokens=True):
\* flags the ids that are special tokens of the tokenizer (line 160).
SpecialIds == { PadTokenId, MaskTokenId }

GetSpecialTokensMask(ids) == [p \in 1..Len(ids) |-> ids[p] \in SpecialIds]

\* torch.bernoulli of a vector of probabilities: every vector of outcomes
\* that is FALSE where the probability is 0 and TRUE where it is 100.
Bernoulli(probs) ==
  { b \in [1..Len(probs) -> BOOLEAN] :
      \A p \in 1..Len(probs) : /\ (probs[p] = 0 => ~b[p])
                               /\ (probs[p] = 100 => b[p]) }

\* The special tokens mask line 154-163 end up with.
EffectiveMask(f) ==
  IF f.special_tokens_mask = None
  THEN GetSpecialTokensMask(f.input_ids)
  ELSE f.special_tokens_mask[1]

\* probability_matrix after masked_fill_ (lines 158, 165).
ProbabilityMatrix(f, c) ==
  LET special_tokens_mask == EffectiveMask(f)
  IN  [p \in 1..Len(f.input_ids) |->
         IF special_tokens_mask[p] THEN 0 ELSE c.mlm_probability]

\* The random words of one example: a sample per position trial3 chose.
Words(t3) ==
  { w \in [1..Len(t3) -> 0..(VocabSize - 1)] : \A p \in 1..Len(t3) : ~t3[p] => w[p] = 0 }

\* The probabilities of the second trial, & masked_indices (line 170).
Trial2Probs(t1, c) ==
  [p \in 1..Len(t1) |-> IF t1[p] THEN c.masked_to_mask ELSE 0]

\* The probabilities of the third trial, & masked_indices & ~indices_replaced
\* (line 174).
Trial3Probs(t1, t2, c) ==
  [p \in 1..Len(t1) |-> IF c.apply_random_words /\ t1[p] /\ ~t2[p] THEN 50 ELSE 0]

\* The outcomes of the random source during one example (lines 166-175):
\* trial1 decides masked_indices, trial2 the replacement by the mask token,
\* trial3 (probability 0.5) the replacement by a random word, random_words
\* the words torch.randint samples.  An outcome at a position where the code
\* intersects it away (& masked_indices, & ~indices_replaced, or the index
\* indices_random) has no effect and is fixed to FALSE / 0.  trial3 and
\* random_words are what the random source yields for the random-word step
\* whenever apply_random_words is set, whether or not the code reaches it.
Draws(f, c) ==
  IF ~c.mlm
  THEN { [trial1 |-> [p \in 1..Len(f.input_ids) |-> FALSE],
          trial2 |-> [p \in 1..Len(f.input_ids) |-> FALSE],
          trial3 |-> [p \in 1..Len(f.input_ids) |-> FALSE],
          random_words |-> [p \in 1..Len(f.input_ids) |-> 0]] }
  ELSE
    UNION { UNION { UNION {
      { [trial1 |-> t1, trial2 |-> t2, trial3 |-> t3, random_words |-> w] :
          w \in Words(t3) } :
        t3 \in Bernoulli(Trial3Probs(t1, t2, c)) } :
        t2 \in Bernoulli(Trial2Probs(t1, c)) } :
        t1 \in Bernoulli(ProbabilityMatrix(f, c)) }

RECURSIVE DrawSeqs(_, _)
DrawSeqs(batch, c) ==
  IF batch = <<>> THEN { <<>> }
  ELSE { <<d>> \o rest : d \in Draws(Head(batch), c), rest \in DrawSeqs(Tail(batch), c) }

\* A call that ends at line 145 makes no draw at all.
NoDraws(batch) ==
  [i \in 1..Len(batch) |->
     [trial1 |-> [p \in 1..Len(batch[i].input_ids) |-> FALSE],
      trial2 |-> [p \in 1..Len(batch[i].input_ids) |-> FALSE],
      trial3 |-> [p \in 1..Len(batch[i].input_ids) |-> FALSE],
      random_words |-> [p \in 1..Len(batch[i].input_ids) |-> 0]]]

\* Mutant of MlmLabels: the index is not negated.
MlmLabels_NotNegated(inputs, masked_indices, ignore_index) ==
  [p \in 1..Len(inputs) |-> IF masked_indices[p] THEN ignore_index ELSE inputs[p]]

\* labels[~masked_indices] = self.ignore_index (lines 157, 167).
MlmLabels(inputs, masked_indices, ignore_index) ==
  [p \in 1..Len(inputs) |-> IF masked_indices[p] THEN inputs[p] ELSE ignore_index]

\* indices_replaced (line 170); the step is skipped when masked_to_mask is 0.0.
IndicesReplaced(masked_indices, d, c) ==
  [p \in 1..Len(masked_indices) |->
     c.masked_to_mask # 0 /\ d.trial2[p] /\ masked_indices[p]]

\* indices_random (line 174), inside the masked_to_mask branch of line 169.
IndicesRandom(masked_indices, indices_replaced, d, c) ==
  [p \in 1..Len(masked_indices) |->
     /\ c.masked_to_mask # 0
     /\ c.apply_random_words
     /\ d.trial3[p] /\ masked_indices[p] /\ ~indices_replaced[p]]

\* The in-place writes to inputs (lines 171, 176).
CorruptedInputs(inputs, indices_replaced, indices_random, d) ==
  [p \in 1..Len(inputs) |->
     IF indices_random[p] THEN d.random_words[p]
     ELSE IF indices_replaced[p] THEN MaskTokenId
     ELSE inputs[p]]

\* The labels of the branch without masking (lines 180-182).
ClmLabels(inputs, ignore_index) ==
  [p \in 1..Len(inputs) |-> IF inputs[p] = PadTokenId THEN HardCodedIgnore ELSE inputs[p]]

\* One iteration of the loop from line 153 on, on the example object f with
\* the draws d: the object as the iteration leaves it (inputs is the
\* object's own tensor and is written in place, special_tokens_mask is
\* popped, labels is set) and the row it appends to the lists.
ProcessFeature(f, c, d) ==
  LET inputs == f.input_ids
      special_tokens_mask == EffectiveMask(f)
      masked_indices == d.trial1
      indices_replaced == IndicesReplaced(masked_indices, d, c)
      indices_random == IndicesRandom(masked_indices, indices_replaced, d, c)
      labels == IF c.mlm THEN MlmLabels(inputs, masked_indices, c.ignore_index)
                ELSE ClmLabels(inputs, c.ignore_index)
      written == IF c.mlm
                 THEN CorruptedInputs(inputs, indices_replaced, indices_random, d)
                 ELSE inputs
  IN  [feature |-> [f EXCEPT !.input_ids = written,
                             !.special_tokens_mask = None,
                             !.labels = Some(labels)],
       row |-> [inputs |-> written, attention_mask |-> f.attention_mask,
                labels |-> labels, special_tokens_mask |-> special_tokens_mask,
                masked_indices |-> masked_indices,
                indices_replaced |-> indices_replaced,
                trial3 |-> d.trial3, random_words |-> d.random_words]]

\* Line 144-145 reads _feature before the iteration binds it: in the first
\* iteration the name is unbound and the call ends in an error before any
\* example is touched; in a later iteration it is the previous example.
OriginalInputList(batch, processed) ==
  [i \in 1..Len(batch) |-> IF i = 1 THEN None ELSE Some(processed[i - 1].feature.input_ids)]

DataCollatorForLanguageModeling(batch, c, ds) ==
  LET processed == [i \in 1..Len(batch) |-> ProcessFeature(batch[i], c, ds[i])]
      original_input_list == OriginalInputList(batch, processed)
      input_list == [i \in 1..Len(batch) |-> processed[i].row.inputs]
      attention_mask_list == [i \in 1..Len(batch) |-> processed[i].row.attention_mask]
      label_list == [i \in 1..Len(batch) |-> processed[i].row.labels]
      mutated == [i \in 1..Len(batch) |-> processed[i].feature]
  IN  IF c.keep_original_input /\ Len(batch) > 0 /\ original_input_list[1] = None
      THEN [out |-> NoOutput("lm", "error"), heap |-> batch]
      ELSE IF CanStack(input_list) /\ CanStack(attention_mask_list) /\ CanStack(label_list)
      THEN [out |-> [collator |-> "lm", status |-> "ok",
                     input_ids |-> input_list,
                     attention_mask |-> attention_mask_list,
                     labels |-> label_list,
                     unmasked_input_ids |->
                       IF c.keep_original_input
                       THEN Some([i \in 1..Len(batch) |-> original_input_list[i][1]])
                       ELSE None,
                     rows |-> [i \in 1..Len(batch) |-> processed[i].row]],
            heap |-> mutated]
      ELSE [out |-> NoOutput("lm", "error"), heap |-> mutated]

\* ------------------------------------------------------------ the machine
\* The batch is drawn at the start: examples of the padding collators, or
\* examples of the language-modelling collator, with a configuration; one
\* collator is then called once with it.
InitPad ==
  /\ family = "pad"
  /\ cfg \in PadConfigs
  /\ heap \in Batches(PadExamples, MaxBatch)
  /\ pre = heap
  /\ out = NoOutput("", "none")
  /\ pc = "ready"

InitLM(configs) ==
  /\ family = "lm"
  /\ cfg \in configs
  /\ heap \in Batches(LMExamples, MaxBatch)
  /\ pre = heap
  /\ out = NoOutput("", "none")
  /\ pc = "ready"

\* The configurations under which no draw has two outcomes.
Deterministic(c) ==
  \/ ~c.mlm
  \/ /\ c.mlm_probability = 100
     /\ c.masked_to_mask \in {0, 100}
     /\ c.apply_random_words => c.masked_to_mask = 100

Init == InitPad \/ InitLM(LMConfigs)

InitDet == InitPad \/ InitLM({ c \in LMConfigs : Deterministic(c) })

\* A collator is called with examples of the representation it reads: the
\* padding collators with lists or arrays that carry labels, the
\* language-modelling collator with tensors (it calls .clone()).
CallSeq2Seq ==
  /\ family = "pad"
  /\ pc = "ready"
  /\ out' = DataCollatorForSeq2Seq(heap, cfg)
  /\ pre' = heap
  /\ pc' = "done"
  /\ UNCHANGED <<family, cfg, heap>>

CallLongestSequence ==
  /\ family = "pad"
  /\ pc = "ready"
  /\ out' = DataCollatorForLongestSequence(heap, cfg)
  /\ pre' = heap
  /\ pc' = "done"
  /\ UNCHANGED <<family, cfg, heap>>

CallLanguageModeling ==
  /\ family = "lm"
  /\ pc = "ready"
  /\ \E ds \in IF cfg.keep_original_input /\ Len(heap) > 0
               THEN { NoDraws(heap) } ELSE DrawSeqs(heap, cfg) :
       LET r == DataCollatorForLanguageModeling(heap, cfg, ds)
       IN  /\ out' = r.out
           /\ heap' = r.heap
  /\ pre' = heap
  /\ pc' = "done"
  /\ UNCHANGED <<family, cfg>>

Next == CallSeq2Seq \/ CallLongestSequence \/ CallLanguageModeling

NextPad == CallSeq2Seq \/ CallLongestSequence

\* Every configuration, random draws included.
Spec == Init /\ [][Next]_vars

\* The padding collators alone.
SpecPad == InitPad /\ [][NextPad]_vars

\* The three collators, the language-modelling one under the configurations
\* whose draws are determined.
SpecDet == InitDet /\ [][Next]_vars

\* ------------------------------------------------------------ properties
Returned(c) == pc = "done" /\ out.collator = c /\ out.status = "ok"

Failed(c) == pc = "done" /\ out.collator = c /\ out.status = "error"

Rows == 1..Len(pre)

\* Every example's attention_mask is as long as its input_ids.
WellFormed == \A i \in Rows : Len(pre[i].attention_mask) = Len(pre[i].input_ids)

IsMaxOf(w, lens) == w \in lens /\ \A l \in lens : l <= w

\* C1: for every non-empty batch whose examples carry input_ids,
\* attention_mask and labels, DataCollatorForSeq2Seq returns one row per
\* example, every input_ids row as long as the longest input_ids of the
\* batch and every labels row as long as the longest labels of the batch
\* (two widths planned independently); no row is shorter than its example.
C1_Seq2SeqWidths ==
  (pc = "done" /\ out.collator = "seq2seq" /\ Len(pre) > 0) =>
    /\ WellFormed => out.status = "ok"
    /\ out.status = "ok" =>
         /\ Len(out.input_ids) = Len(pre)
         /\ Len(out.labels) = Len(pre)
         /\ \A i \in Rows :
              /\ IsMaxOf(Len(out.input_ids[i]), { Len(pre[j].input_ids) : j \in Rows })
              /\ IsMaxOf(Len(out.labels[i]), { Len(pre[j].labels[1]) : j \in Rows })
              /\ Len(out.input_ids[i]) >= Len(pre[i].input_ids)
              /\ Len(out.labels[i]) >= Len(pre[i].labels[1])

C1_Witness ==
  /\ Returned("seq2seq")
  /\ Len(pre) = MaxBatch
  /\ Len(out.input_ids[1]) # Len(out.labels[1])
  /\ \E i \in Rows : Len(pre[i].input_ids) < Len(out.input_ids[i])

\* row is orig with a block of fill values on one of its two sides.
PaddedWith(row, orig, fillv) ==
  /\ Len(row) >= Len(orig)
  /\ \/ row = orig \o Fill(fillv, Len(row) - Len(orig))
     \/ row = Fill(fillv, Len(row) - Len(orig)) \o orig

\* C2: in the output of DataCollatorForSeq2Seq and
\* DataCollatorForLongestSequence every position added by padding holds the
\* fill value of its field (pad_token_id in input_ids, 0 in attention_mask,
\* label_pad_token_id in labels) and the other positions hold the example's
\* elements in their order.
C2_FillValues ==
  (Returned("seq2seq") \/ Returned("longest")) =>
    \A i \in Rows :
      /\ PaddedWith(out.input_ids[i], pre[i].input_ids, PadTokenId)
      /\ PaddedWith(out.attention_mask[i], pre[i].attention_mask, 0)
      /\ Returned("seq2seq") =>
           PaddedWith(out.labels[i], pre[i].labels[1], LabelPadTokenId)

C2_Witness ==
  /\ Returned("seq2seq")
  /\ \E i \in Rows :
       /\ Len(out.input_ids[i]) > Len(pre[i].input_ids)
       /\ Len(out.attention_mask[i]) > Len(pre[i].attention_mask)
  /\ \E i \in Rows : Len(out.labels[i]) > Len(pre[i].labels[1])

\* row is orig with the fill block on the configured side.
PaddedOnSide(row, orig, fillv, side) ==
  /\ Len(row) >= Len(orig)
  /\ row = IF side = "right"
           THEN orig \o Fill(fillv, Len(row) - Len(orig))
           ELSE Fill(fillv, Len(row) - Len(orig)) \o orig

\* C3: DataCollatorForSeq2Seq (examples that are python lists included) and
\* DataCollatorForLongestSequence put the fill block of every field of every
\* example on the configured padding side: after the tokens for right,
\* before them for left.  (Stated for batches of well-formed examples.)
C3_ConfiguredSide ==
  ((Returned("seq2seq") \/ Returned("longest")) /\ WellFormed) =>
    \A i \in Rows :
      /\ PaddedOnSide(out.input_ids[i], pre[i].input_ids, PadTokenId, cfg.padding_side)
      /\ PaddedOnSide(out.attention_mask[i], pre[i].attention_mask, 0, cfg.padding_side)
      /\ Returned("seq2seq") =>
           PaddedOnSide(out.labels[i], pre[i].labels[1], LabelPadTokenId,
                        cfg.padding_side)

SameLengths(field(_)) == \A i, j \in Rows : Len(field(pre[i])) = Len(field(pre[j]))

InputIdsOf(e) == e.input_ids

AttentionMaskOf(e) == e.attention_mask

\* C4: with keep_original_input set, a DataCollatorForLanguageModeling call
\* on a non-empty batch (here: of well-formed examples of one length) completes and returns
\* unmasked_input_ids whose row i is the input_ids example i had before the
\* call, for every i.
C4_OriginalRetained ==
  ( /\ pc = "done" /\ out.collator = "lm" /\ cfg.keep_original_input
    /\ Len(pre) > 0 /\ WellFormed /\ SameLengths(InputIdsOf) ) =>
    /\ out.status = "ok"
    /\ out.unmasked_input_ids = Some([i \in Rows |-> pre[i].input_ids])

\* The special tokens mask of an example as the call finds it: the one the
\* example supplies, else the tokenizer's.
MaskOf(e) ==
  IF e.special_tokens_mask = None
  THEN [p \in 1..Len(e.input_ids) |-> e.input_ids[p] \in SpecialIds]
  ELSE e.special_tokens_mask[1]

\* C5: with mlm, mlm_probability = 1.0, masked_to_mask = 1.0 and
\* apply_random_words off, at every position the special tokens mask does
\* not flag the returned input_ids holds the mask token id and the returned
\* labels holds the token the example had there.
C5_FullMasking ==
  ( /\ Returned("lm") /\ cfg.mlm /\ cfg.mlm_probability = 100
    /\ cfg.masked_to_mask = 100 /\ ~cfg.apply_random_words ) =>
    \A i \in Rows : \A p \in 1..Len(pre[i].input_ids) :
      ~MaskOf(pre[i])[p] =>
        /\ out.input_ids[i][p] = MaskTokenId
        /\ out.labels[i][p] = pre[i].input_ids[p]

C5_Witness ==
  /\ Returned("lm") /\ cfg.mlm /\ cfg.mlm_probability = 100
  /\ cfg.masked_to_mask = 100 /\ ~cfg.apply_random_words
  /\ Len(pre) = MaxBatch
  /\ \E i \in Rows : \E p, q \in 1..Len(pre[i].input_ids) :
       /\ ~MaskOf(pre[i])[p] /\ MaskOf(pre[i])[q]
       /\ out.input_ids[i][p] = MaskTokenId /\ pre[i].input_ids[p] # MaskTokenId
       /\ out.input_ids[i][q] = pre[i].input_ids[q]

\* C6: with mlm off, for every configured ignore_index, labels equals
\* input_ids where the token is not pad_token_id and the configured
\* ignore_index where it is; input_ids is returned as it came.
C6_ConfiguredIgnoreIndex ==
  (Returned("lm") /\ ~cfg.mlm /\ WellFormed) =>
    \A i \in Rows :
      /\ out.input_ids[i] = pre[i].input_ids
      /\ \A p \in 1..Len(pre[i].input_ids) :
           out.labels[i][p] = IF pre[i].input_ids[p] = PadTokenId
                              THEN cfg.ignore_index
                              ELSE pre[i].input_ids[p]

\* C7: each of the three collators, called with a batch of zero examples,
\* ends in an error and returns nothing, whatever the configuration.
C7_EmptyBatchFails ==
  (pc = "done" /\ Len(pre) = 0) =>
    /\ out.status = "error"
    /\ out.input_ids = <<>> /\ out.attention_mask = <<>> /\ out.labels = <<>>

C7_Witness == Failed("lm") /\ Len(pre) = 0 /\ ~cfg.keep_original_input

Malformed(e) == Len(e.attention_mask) # Len(e.input_ids)

MaskExcess(e) == Len(e.attention_mask) - Len(e.input_ids)

C9_RandomWordsIndependent ==
  (Returned("lm") /\ cfg.mlm /\ cfg.apply_random_words /\ WellFormed) =>
    \A i \in Rows : \A p \in 1..Len(pre[i].input_ids) :
      ( /\ out.rows[i].masked_indices[p]
        /\ ~out.rows[i].indices_replaced[p]
        /\ out.rows[i].trial3[p] ) =>
        out.input_ids[i][p] = out.rows[i].random_words[p]

\* C10: a DataCollatorForLanguageModeling call leaves every example record
\* of the batch as it was: same input_ids, special_tokens_mask still there,
\* no labels added.
C10_ExamplesUntouched ==
  (pc = "done" /\ out.collator = "lm" /\ WellFormed) => heap = pre

====
